---- MODULE Spec2Model ----
(***************************************************************************)
(* King of Diamond on the generic round-based GameEngine.                  *)
(*                                                                         *)
(* src/index.js      Player, GameEngine (roster and lifecycle)             *)
(* src/front_end.js  KingOfDiamondPlayer, KingOfDiamondEngine              *)
(*                                                                         *)
(* One engine object is modelled.  Every public mutating method is one     *)
(* action.  playRound() calls itself (front_end.js:575) once per resolved  *)
(* round; pc records that the engine is inside that call chain, and no     *)
(* other method can run until the chain has returned.                      *)
(*                                                                         *)
(* Numbers.  targetNumber is (sum / n) * 0.8 in IEEE doubles.  It is kept  *)
(* here as the exact fraction <<4 * sum, 5 * n>>; distances are compared   *)
(* after scaling by 5 * n.  For every multiset of up to five choices in    *)
(* 0..100 the double computation and the exact one select the same round   *)
(* winners (exhaustive enumeration), so the abstraction does not change    *)
(* who wins.  0/0 (no active player) is <<0, 0>>, JavaScript's NaN.        *)
(***************************************************************************)
EXTENDS Integers, Sequences, FiniteSets, TLC

VARIABLES
    players,            \* GameEngine.players, in join order
    currentRound,       \* GameEngine.currentRound
    maxRounds,          \* GameEngine.maxRounds
    hasPlayedThisRound, \* GameEngine.hasPlayedThisRound
    gameState,          \* GameEngine.gameState
    targetNumber,       \* KingOfDiamondEngine.targetNumber
    roundWinners,       \* KingOfDiamondEngine.roundWinners (ids, in order)
    nextId,             \* the identity the next created Player receives
    pc,                 \* "idle", or "playRound" inside the call chain
    op,                 \* the method called last
    ret                 \* how that call ended: returned value or "error"

vars == <<players, currentRound, maxRounds, hasPlayedThisRound, gameState,
          targetNumber, roundWinners, nextId, pc, op, ret>>

engine == <<players, currentRound, maxRounds, hasPlayedThisRound, gameState,
            targetNumber, roundWinners>>

----------------------------------------------------------------------------
(* Bounds of the model *)

\* Life points of a new player.  The program starts every player with 10
\* (front_end.js:419); the model scales it down so that whole games, with
\* their histories, are explored to the end.
StartingLife == 1

\* Longest roundHistory a player may have when a further round is resolved.
HistCap == 2

\* The identities generateId() hands out in one behaviour, in this order:
\* every created player gets a fresh one, and none is created once they are
\* used up.
PlayerIds == {1, 2, 3}

\* The names offered to addPlayer: empty, blank, and three proper names.
Names == {<< >>, <<" ">>, <<"A">>, <<"B">>, <<"C">>}

\* The numbers the players of a roster of n may draw in one round, one per
\* roster position, out of 0..100 each.  The draws are picked so that every
\* kind of round happens, whichever players are still active:
\*   two players    equal choices, 0 and 100 in both orders, and 30/70
\*   three players  a single winner (10, 50, 90), two winners with equal
\*                  choices (100, 0, 0), two winners with different choices
\*                  (10 and 30 are both 10 away from the target 20 of
\*                  10, 30, 35), and everybody tied (50, 50, 50)
ChoiceDraws(n) ==
    CASE n = 0 -> {<< >>}
      [] n = 1 -> {<<50>>}
      [] n = 2 -> {<<50, 50>>, <<0, 100>>, <<100, 0>>, <<30, 70>>}
      [] n = 3 -> {<<10, 50, 90>>, <<100, 0, 0>>,
                   <<10, 30, 35>>, <<50, 50, 50>>}
      [] OTHER -> [1..n -> {0, 100}]

----------------------------------------------------------------------------
(* Values *)

\* JavaScript's null in a number-valued field.  No choice is negative.
Null == -1

\* targetNumber before any round: null.
NullTarget == << >>

RECURSIVE SumSeq(_)
SumSeq(s) == IF s = << >> THEN 0 ELSE Head(s) + SumSeq(Tail(s))

Abs(x) == IF x < 0 THEN -x ELSE x

RECURSIVE SeqMin(_)
SeqMin(s) == IF Len(s) = 1 THEN s[1]
             ELSE LET m == SeqMin(Tail(s)) IN IF s[1] < m THEN s[1] ELSE m

Range(s) == {s[i] : i \in DOMAIN s}

Map(F(_), s) == [i \in DOMAIN s |-> F(s[i])]

\* Array.prototype.filter
Filter(Test(_), s) == SelectSeq(s, Test)

\* String.prototype.trim on a name given as a sequence of characters
RECURSIVE TrimLeft(_)
TrimLeft(s) == IF s # << >> /\ Head(s) = " " THEN TrimLeft(Tail(s)) ELSE s

RECURSIVE TrimRight(_)
TrimRight(s) == IF s # << >> /\ s[Len(s)] = " "
                THEN TrimRight(SubSeq(s, 1, Len(s) - 1)) ELSE s

Trim(s) == TrimRight(TrimLeft(s))

----------------------------------------------------------------------------
(* KingOfDiamondPlayer *)

createPlayer(name, id) ==
    [id |-> id, name |-> name, totalScore |-> 0,
     lifePoints |-> StartingLife, currentChoice |-> Null,
     isEliminated |-> FALSE, roundHistory |-> << >>]

makeChoiceThrows(number) == number < 0 \/ number > 100

makeChoice(p, number) == [p EXCEPT !.currentChoice = number]

\* a slip in the elimination test: "below zero" for "zero or below"
loseLifePoint_BelowZero(p) ==
    LET q == [p EXCEPT !.lifePoints = p.lifePoints - 1]
    IN  IF q.lifePoints < 0 THEN [q EXCEPT !.isEliminated = TRUE] ELSE q

loseLifePoint(p) ==
    LET q == [p EXCEPT !.lifePoints = p.lifePoints - 1]
    IN  IF q.lifePoints <= 0 THEN [q EXCEPT !.isEliminated = TRUE] ELSE q

resetChoice(p) == [p EXCEPT !.currentChoice = Null]

addToHistory(p, choice, target, won) ==
    [p EXCEPT !.roundHistory =
        Append(p.roundHistory,
               [choice |-> choice, targetNumber |-> target, won |-> won,
                lifePointsAfter |-> p.lifePoints])]

----------------------------------------------------------------------------
(* KingOfDiamondEngine: pure helpers *)

getMinPlayers == 2

IsActive(p) == ~p.isEliminated

\* a slip: the eliminated players not filtered out
getActivePlayers_All(ps) == ps

getActivePlayers(ps) == Filter(IsActive, ps)

\* a slip: the plain average, the factor 0.8 forgotten
calculateTargetNumber_Average(ps) ==
    LET sum == SumSeq([i \in DOMAIN ps |-> ps[i].currentChoice])
    IN  <<sum, Len(ps)>>

\* (sum / n) * 0.8 as the fraction <<4 * sum, 5 * n>>
calculateTargetNumber(ps) ==
    LET sum == SumSeq([i \in DOMAIN ps |-> ps[i].currentChoice])
    IN  <<4 * sum, 5 * Len(ps)>>

\* a slip: 0 against 100 recognised in one order only
checkTwoPlayerDraw_OneOrder(p1, p2) ==
    \/ p1.currentChoice = p2.currentChoice
    \/ (p1.currentChoice = 0 /\ p2.currentChoice = 100)

checkTwoPlayerDraw(p1, p2) ==
    \/ p1.currentChoice = p2.currentChoice
    \/ (p1.currentChoice = 0 /\ p2.currentChoice = 100)
    \/ (p1.currentChoice = 100 /\ p2.currentChoice = 0)

\* |choice - target|, scaled by the target's denominator
distance(p, target) == Abs(p.currentChoice * target[2] - target[1])

\* a slip: a tie for closest broken in favour of the first player
findRoundWinners_FirstOnly(ps, target) ==
    IF ps = << >> \/ target[2] = 0 THEN << >>
    ELSE LET distances   == [i \in DOMAIN ps |-> distance(ps[i], target)]
             minDistance == SeqMin(distances)
             Closest(p)  == distance(p, target) = minDistance
         IN  <<Filter(Closest, ps)[1].id>>

\* the ids of the players closest to the target, in roster order
findRoundWinners(ps, target) ==
    IF ps = << >> \/ target[2] = 0 THEN << >>
    ELSE LET distances   == [i \in DOMAIN ps |-> distance(ps[i], target)]
             minDistance == SeqMin(distances)
             Closest(p)  == distance(p, target) = minDistance
         IN  [i \in DOMAIN Filter(Closest, ps) |-> Filter(Closest, ps)[i].id]

shouldEndGame(ps) ==
    \/ Len(getActivePlayers(ps)) = 0
    \/ Len(getActivePlayers(ps)) = 1

\* a slip: any non-empty roster may start
canStartGame_NonEmpty == Len(players) >= 1

canStartGame == Len(players) >= getMinPlayers

\* a slip: GameEngine.canAdvanceRound (index.js:79-81) left in force
canAdvanceRound_Base == hasPlayedThisRound /\ currentRound < maxRounds

canAdvanceRound ==
    IF ~hasPlayedThisRound THEN FALSE
    ELSE IF gameState = "FINISHED" THEN FALSE
    ELSE TRUE

\* a slip: the FINISHED test forgotten
getWinners_AnyState ==
    IF Len(getActivePlayers(players)) = 0 THEN << >>
    ELSE getActivePlayers(players)

getWinners ==
    IF gameState # "FINISHED" THEN << >>
    ELSE IF Len(getActivePlayers(players)) = 0 THEN << >>
    ELSE getActivePlayers(players)

\* a slip: the hasPlayedThisRound test forgotten
getRoundWinner_Stale ==
    IF Len(roundWinners) = 1 THEN roundWinners[1] ELSE Null

getRoundWinner ==
    IF ~hasPlayedThisRound THEN Null
    ELSE IF Len(roundWinners) = 1 THEN roundWinners[1] ELSE Null

\* KingOfDiamondPlayer.toJSON: a copy of the player's fields
toJSON(p) ==
    [id |-> p.id, name |-> p.name, totalScore |-> p.totalScore,
     lifePoints |-> p.lifePoints, currentChoice |-> p.currentChoice,
     isEliminated |-> p.isEliminated, roundHistory |-> p.roundHistory]

IsEliminated(p) == p.isEliminated

\* KingOfDiamondEngine.getGameState on top of GameEngine.getGameState.  The
\* round winners are given by their ids, as in roundWinners.
getGameState ==
    [state              |-> gameState,
     currentRound       |-> currentRound,
     maxRounds          |-> maxRounds,
     hasPlayedThisRound |-> hasPlayedThisRound,
     players            |-> Map(toJSON, players),
     roundWinner        |-> getRoundWinner,
     gameName           |-> "King of Diamond",
     targetNumber       |-> targetNumber,
     roundWinners       |-> roundWinners,
     activePlayers      |-> Map(toJSON, getActivePlayers(players)),
     eliminatedPlayers  |-> Map(toJSON, Filter(IsEliminated, players))]

----------------------------------------------------------------------------
(* Construction *)

Init ==
    /\ players = << >>
    /\ currentRound = 0
    /\ maxRounds = 999
    /\ hasPlayedThisRound = FALSE
    /\ gameState = "SETUP"
    /\ targetNumber = NullTarget
    /\ roundWinners = << >>
    /\ nextId = 1
    /\ pc = "idle"
    /\ op = "new"
    /\ ret = "ok"

----------------------------------------------------------------------------
(* GameEngine: roster and lifecycle.  Every method runs only when the engine
   is not inside playRound's call chain. *)

\* a slip: the name compared with the first player's only
NameTaken_FirstOnly(name) == players # << >> /\ players[1].name = name

NameTaken(name) == \E i \in DOMAIN players : players[i].name = name

\* a slip: the new player put first (unshift for push)
AddPlayer_Unshift(name) ==
    /\ pc = "idle"
    /\ op' = "addPlayer"
    /\ IF name = << >> \/ Trim(name) = << >>
       THEN ret' = "error" /\ UNCHANGED <<engine, nextId, pc>>
       ELSE IF NameTaken(name)
       THEN ret' = "error" /\ UNCHANGED <<engine, nextId, pc>>
       ELSE /\ nextId \in PlayerIds
            /\ players' = <<createPlayer(name, nextId)>> \o players
            /\ nextId' = nextId + 1
            /\ ret' = "ok"
            /\ UNCHANGED <<currentRound, maxRounds, hasPlayedThisRound,
                           gameState, targetNumber, roundWinners, pc>>

AddPlayer(name) ==
    /\ pc = "idle"
    /\ op' = "addPlayer"
    /\ IF name = << >> \/ Trim(name) = << >>
       THEN ret' = "error" /\ UNCHANGED <<engine, nextId, pc>>
       ELSE IF NameTaken(name)
       THEN ret' = "error" /\ UNCHANGED <<engine, nextId, pc>>
       ELSE /\ nextId \in PlayerIds
            /\ players' = Append(players, createPlayer(name, nextId))
            /\ nextId' = nextId + 1
            /\ ret' = "ok"
            /\ UNCHANGED <<currentRound, maxRounds, hasPlayedThisRound,
                           gameState, targetNumber, roundWinners, pc>>

\* findIndex: the first position holding the id, 0 when there is none
findIndex(id) ==
    IF \E i \in DOMAIN players : players[i].id = id
    THEN CHOOSE i \in DOMAIN players :
            /\ players[i].id = id
            /\ \A j \in 1..(i - 1) : players[j].id # id
    ELSE 0

splice(s, index) == SubSeq(s, 1, index - 1) \o SubSeq(s, index + 1, Len(s))

RemovePlayer(playerId) ==
    /\ pc = "idle"
    /\ op' = "removePlayer"
    /\ IF findIndex(playerId) # 0
       THEN players' = splice(players, findIndex(playerId)) /\ ret' = "true"
       ELSE players' = players /\ ret' = "false"
    /\ UNCHANGED <<currentRound, maxRounds, hasPlayedThisRound, gameState,
                   targetNumber, roundWinners, nextId, pc>>

StartGame ==
    /\ pc = "idle"
    /\ op' = "startGame"
    /\ IF ~canStartGame
       THEN ret' = "error" /\ UNCHANGED <<engine, nextId, pc>>
       ELSE /\ gameState' = "PLAYING"
            /\ currentRound' = 1
            /\ hasPlayedThisRound' = FALSE
            /\ ret' = "ok"
            /\ UNCHANGED <<players, maxRounds, targetNumber, roundWinners,
                           nextId, pc>>

EndGame ==
    /\ pc = "idle"
    /\ op' = "endGame"
    /\ gameState' = "FINISHED"
    /\ ret' = "ok"
    /\ UNCHANGED <<players, currentRound, maxRounds, hasPlayedThisRound,
                   targetNumber, roundWinners, nextId, pc>>

Reset ==
    /\ pc = "idle"
    /\ op' = "reset"
    /\ players' = << >>
    /\ currentRound' = 1
    /\ hasPlayedThisRound' = FALSE
    /\ gameState' = "SETUP"
    /\ ret' = "ok"
    /\ UNCHANGED <<maxRounds, targetNumber, roundWinners, nextId, pc>>

\* a slip: GameEngine.advanceRound's effect (index.js:92-95) only
AdvanceRound_Base ==
    /\ pc = "idle"
    /\ op' = "advanceRound"
    /\ IF ~canAdvanceRound
       THEN ret' = "false" /\ UNCHANGED <<engine, nextId, pc>>
       ELSE /\ currentRound' = currentRound + 1
            /\ hasPlayedThisRound' = FALSE
            /\ ret' = "true"
            /\ UNCHANGED <<players, maxRounds, gameState, targetNumber,
                           roundWinners, nextId, pc>>

\* KingOfDiamondEngine.advanceRound, which overrides GameEngine's
AdvanceRound ==
    /\ pc = "idle"
    /\ op' = "advanceRound"
    /\ IF ~canAdvanceRound
       THEN ret' = "false" /\ UNCHANGED <<engine, nextId, pc>>
       ELSE /\ currentRound' = currentRound + 1
            /\ hasPlayedThisRound' = FALSE
            /\ targetNumber' = NullTarget
            /\ roundWinners' = << >>
            /\ players' = Map(resetChoice, players)
            /\ ret' = "true"
            /\ UNCHANGED <<maxRounds, gameState, nextId, pc>>

----------------------------------------------------------------------------
(* KingOfDiamondEngine.playRound *)

\* line 527: every player of the roster draws a number
chosen(ch) == [i \in DOMAIN players |-> makeChoice(players[i], ch[i])]

IsDrawRound(ps) ==
    LET activePlayers == getActivePlayers(ps)
    IN  /\ Len(activePlayers) = 2
        /\ checkTwoPlayerDraw(activePlayers[1], activePlayers[2])

\* a slip: the round recorded before the life point is taken
drawRound_HistoryFirst(ps, target) ==
    [i \in DOMAIN ps |->
        IF IsActive(ps[i])
        THEN loseLifePoint(addToHistory(ps[i], ps[i].currentChoice, target, FALSE))
        ELSE ps[i]]

\* lines 546-550: both active players lose a point and record a lost round
drawRound(ps, target) ==
    [i \in DOMAIN ps |->
        IF IsActive(ps[i])
        THEN addToHistory(loseLifePoint(ps[i]), ps[i].currentChoice, target, FALSE)
        ELSE ps[i]]

\* a slip: only the losers of the round get a history entry
scoreRound_LosersOnly(ps, target, winners) ==
    [i \in DOMAIN ps |->
        IF IsActive(ps[i])
        THEN LET won == \E k \in DOMAIN winners : winners[k] = ps[i].id
             IN  IF ~won
                 THEN addToHistory(loseLifePoint(ps[i]), ps[i].currentChoice,
                                   target, won)
                 ELSE ps[i]
        ELSE ps[i]]

\* lines 562-566: the players active at the start of the round are scored
scoreRound(ps, target, winners) ==
    [i \in DOMAIN ps |->
        IF IsActive(ps[i])
        THEN LET won == \E k \in DOMAIN winners : winners[k] = ps[i].id
             IN  addToHistory(IF ~won THEN loseLifePoint(ps[i]) ELSE ps[i],
                              ps[i].currentChoice, target, won)
        ELSE ps[i]]

\* lines 527-575 for one draw ch of choices, one per roster position
ResolveRound(ch) ==
    LET ps            == chosen(ch)
        activePlayers == getActivePlayers(ps)
        target        == calculateTargetNumber(activePlayers)
    IN  /\ targetNumber' = target
        /\ hasPlayedThisRound' = TRUE
        /\ IF IsDrawRound(ps)
           THEN /\ players' = drawRound(ps, target)
                /\ roundWinners' = << >>
                /\ pc' = "idle"
                /\ ret' = "ok"
                /\ UNCHANGED <<currentRound, gameState>>
           ELSE LET winners == findRoundWinners(activePlayers, target)
                    after   == scoreRound(ps, target, winners)
                IN  /\ players' = after
                    /\ roundWinners' = winners
                    /\ currentRound' = currentRound + 1
                    /\ IF shouldEndGame(after)
                       THEN gameState' = "FINISHED" /\ pc' = "idle" /\ ret' = "ok"
                       ELSE gameState' = gameState /\ pc' = "playRound"
                            /\ ret' = "running"
        /\ UNCHANGED <<maxRounds, nextId>>

\* no player's history has outgrown the model
HistoryRoom == \A i \in DOMAIN players : Len(players[i].roundHistory) < HistCap

\* a slip: only SETUP refused, a finished game played on
PlayRound_SetupOnly ==
    /\ pc = "idle"
    /\ op' = "playRound"
    /\ IF gameState = "SETUP"
       THEN ret' = "error" /\ UNCHANGED <<engine, nextId, pc>>
       ELSE HistoryRoom /\ \E ch \in ChoiceDraws(Len(players)) : ResolveRound(ch)

\* playRound() called by the engine's user; ch are the numbers
\* Math.floor(Math.random() * 101) yields for the players, in roster order
PlayRound ==
    /\ pc = "idle"
    /\ op' = "playRound"
    /\ IF gameState # "PLAYING"
       THEN ret' = "error" /\ UNCHANGED <<engine, nextId, pc>>
       ELSE HistoryRoom /\ \E ch \in ChoiceDraws(Len(players)) : ResolveRound(ch)

\* line 575: playRound() calling itself for the next round
PlayRoundAgain ==
    /\ pc = "playRound"
    /\ gameState = "PLAYING"
    /\ HistoryRoom
    /\ op' = "playRound"
    /\ \E ch \in ChoiceDraws(Len(players)) : ResolveRound(ch)

----------------------------------------------------------------------------

Next ==
    \/ \E name \in Names : AddPlayer(name)
    \/ \E playerId \in PlayerIds : RemovePlayer(playerId)
    \/ StartGame
    \/ PlayRound
    \/ PlayRoundAgain
    \/ AdvanceRound
    \/ EndGame
    \/ Reset

Spec == Init /\ [][Next]_vars

----------------------------------------------------------------------------
(* Vocabulary of the properties *)

ActiveIdx(ps) == {i \in DOMAIN ps : ~ps[i].isEliminated}

\* This step resolved one round: playRound ran and did not throw.
RoundResolved == op' = "playRound" /\ ret' \in {"ok", "running"}

\* playRound has just returned normally to its caller.
PlayRoundReturned == pc = "idle" /\ op = "playRound" /\ ret = "ok"

DrawPair(a, b) == a = b \/ (a = 0 /\ b = 100) \/ (a = 100 /\ b = 0)

\* The round of this step is a two-player draw: two players were active and
\* the numbers they drew are equal or 0 and 100.
TwoPlayerDrawStep ==
    /\ RoundResolved
    /\ Cardinality(ActiveIdx(players)) = 2
    /\ \E i, j \in ActiveIdx(players) :
          /\ i # j
          /\ DrawPair(players'[i].currentChoice, players'[j].currentChoice)

LostOne(i) == players'[i].lifePoints = players[i].lifePoints - 1

KeptLife(i) == players'[i].lifePoints = players[i].lifePoints

\* Player i got exactly one new history entry, with the given won flag.
OneEntry(i, won) ==
    LET old == players[i].roundHistory
        new == players'[i].roundHistory
    IN  /\ Len(new) = Len(old) + 1
        /\ SubSeq(new, 1, Len(old)) = old
        /\ new[Len(new)].won = won

IsWinner(i) == \E k \in DOMAIN roundWinners' : roundWinners'[k] = players[i].id

Rank(state) == CASE state = "SETUP" -> 0
                 [] state = "PLAYING" -> 1
                 [] state = "FINISHED" -> 2

----------------------------------------------------------------------------
(* C1 .. C10 *)

\* C1: whenever a playRound() call made in state PLAYING has returned
\* normally, the game is FINISHED and at most one player is active.
C1_ReturnsOnlyWhenOver ==
    PlayRoundReturned =>
        /\ gameState = "FINISHED"
        /\ Cardinality(ActiveIdx(players)) <= 1

\* C2: whenever playRound() has returned from a round that left zero or one
\* active players, the engine is FINISHED.
C2_FinishedWhenAtMostOneLeft ==
    (PlayRoundReturned /\ Cardinality(ActiveIdx(players)) <= 1)
        => gameState = "FINISHED"

\* C3: when FINISHED, getWinners() is exactly the non-eliminated players of
\* the roster, each once (the survivor alone, or nobody); in every other
\* state it is empty.
C3_GetWinners ==
    /\ gameState = "FINISHED" =>
          /\ Range(getWinners) = {players[i] : i \in ActiveIdx(players)}
          /\ Len(getWinners) = Cardinality(ActiveIdx(players))
    /\ gameState # "FINISHED" => getWinners = << >>

\* a game played to its end: one survivor, who is the only winner
C3_Witness ==
    /\ PlayRoundReturned
    /\ gameState = "FINISHED"
    /\ Len(players) >= 2
    /\ Cardinality(ActiveIdx(players)) = 1
    /\ Len(getWinners) = 1
    /\ ~getWinners[1].isEliminated

\* C4: a round resolved with exactly two active players whose choices are
\* equal, or 0 and 100, costs both of them exactly one life point, gives both
\* one history entry with won = false and leaves roundWinners empty.
C4_TwoPlayerDraw ==
    [][TwoPlayerDrawStep =>
          /\ \A i \in ActiveIdx(players) : LostOne(i) /\ OneEntry(i, FALSE)
          /\ roundWinners' = << >>]_vars

\* a 0/100 draw between the two players left of three
C4_Witness ==
    /\ PlayRoundReturned
    /\ Len(players) = 3
    /\ roundWinners = << >>
    /\ targetNumber = <<400, 10>>
    /\ \E i, j, k \in DOMAIN players :
          LET hi == players[i].roundHistory
              hj == players[j].roundHistory
              hk == players[k].roundHistory
          IN  /\ i # j /\ j # k /\ i # k
              /\ players[k].isEliminated
              /\ hk # << >> /\ Len(hk) < Len(hi) /\ Len(hj) = Len(hi)
              /\ hi[Len(hi)].choice = 0 /\ hj[Len(hj)].choice = 100
              /\ hi[Len(hi)].targetNumber = targetNumber
              /\ hj[Len(hj)].targetNumber = targetNumber
              /\ ~hi[Len(hi)].won /\ ~hj[Len(hj)].won
              /\ hi[Len(hi)].lifePointsAfter = players[i].lifePoints
              /\ hj[Len(hj)].lifePointsAfter = players[j].lifePoints

\* player i is at least as close to the target of this round as every
\* player active in it
C5_Closest(i) ==
    LET t    == targetNumber'
        d(k) == Abs(players'[k].currentChoice * t[2] - t[1])
    IN  \A j \in ActiveIdx(players) : d(i) <= d(j)

\* C5: in a resolved round that is no two-player draw, roundWinners is
\* exactly the players active in the round whose distance to targetNumber is
\* the least among them; it is non-empty when somebody was active.
C5_RoundWinners ==
    [][(RoundResolved /\ ~TwoPlayerDrawStep) =>
          /\ Range(roundWinners') =
                {players[i].id : i \in {k \in ActiveIdx(players) : C5_Closest(k)}}
          /\ Len(roundWinners') = Cardinality(Range(roundWinners'))
          /\ ActiveIdx(players) # {} => roundWinners' # << >>]_vars

\* three active players, two of them tied for closest with different
\* choices, the third a loser
C5_Witness ==
    /\ op = "playRound" /\ ret \in {"ok", "running"}
    /\ Len(roundWinners) = 2
    /\ \E i, j, k \in DOMAIN players :
          /\ roundWinners = <<players[i].id, players[j].id>>
          /\ players[i].currentChoice # players[j].currentChoice
          /\ players[k].roundHistory # << >>
          /\ ~players[k].roundHistory[Len(players[k].roundHistory)].won

\* C6: in a resolved round that is no two-player draw, each player active at
\* its start loses one life point if they are no round winner and none if
\* they are, and gets one history entry whose won flag says which; a player
\* eliminated before the round keeps life points and history.
C6_Scoring ==
    [][(RoundResolved /\ ~TwoPlayerDrawStep) =>
          \A i \in DOMAIN players :
             IF i \in ActiveIdx(players)
             THEN /\ IF IsWinner(i) THEN KeptLife(i) ELSE LostOne(i)
                  /\ OneEntry(i, IsWinner(i))
             ELSE /\ KeptLife(i)
                  /\ players'[i].roundHistory = players[i].roundHistory]_vars

\* a round with winners, a loser and a player eliminated earlier
C6_Witness ==
    /\ op = "playRound" /\ ret \in {"ok", "running"}
    /\ roundWinners # << >>
    /\ \E i, j, k \in DOMAIN players :
          /\ players[i].roundHistory # << >>
          /\ players[i].roundHistory[Len(players[i].roundHistory)].won
          /\ players[j].roundHistory # << >>
          /\ ~players[j].roundHistory[Len(players[j].roundHistory)].won
          /\ Len(players[j].roundHistory) = Len(players[i].roundHistory)
          /\ players[k].isEliminated
          /\ Len(players[k].roundHistory) < Len(players[i].roundHistory)

\* five times the distance of c to 0.8 * (a + b) / 2
C7_Dist(c, a, b) == Abs(5 * c - 2 * (a + b))

\* C7: two active players whose choices a, b are no draw pair: exactly one
\* round winner, the one closer to 0.8 * (a + b) / 2, and exactly one of the
\* two loses a life point.
C7_TwoPlayerSingleWinner ==
    [][(RoundResolved /\ Cardinality(ActiveIdx(players)) = 2
          /\ ~TwoPlayerDrawStep) =>
          \E i, j \in ActiveIdx(players) :
             LET a == players'[i].currentChoice
                 b == players'[j].currentChoice
             IN  /\ i # j
                 /\ C7_Dist(a, a, b) < C7_Dist(b, a, b)
                 /\ roundWinners' = <<players[i].id>>
                 /\ KeptLife(i)
                 /\ LostOne(j)]_vars

\* the choices 30 and 70: the player who chose 30 won
C7_Witness ==
    /\ op = "playRound" /\ ret \in {"ok", "running"}
    /\ Len(players) = 2
    /\ Len(roundWinners) = 1
    /\ \E i, j \in DOMAIN players :
          /\ players[i].currentChoice = 30
          /\ players[j].currentChoice = 70
          /\ roundWinners[1] = players[i].id
          /\ players[i].lifePoints = StartingLife
          /\ players[j].lifePoints = StartingLife - 1

\* C8: from one state to the next no player's lifePoints grows and no
\* eliminated player of the roster becomes active again, and isEliminated
\* holds exactly when lifePoints is 0.
C8_EliminationMonotone ==
    [][/\ \A i \in DOMAIN players : \A j \in DOMAIN players' :
             players[i].id = players'[j].id =>
                /\ players'[j].lifePoints <= players[i].lifePoints
                /\ players[i].isEliminated => players'[j].isEliminated
       /\ \A j \in DOMAIN players' :
             players'[j].isEliminated <=> players'[j].lifePoints = 0]_vars

\* an eliminated player, still eliminated after the game was started again
C8_Witness ==
    /\ op = "startGame" /\ ret = "ok"
    /\ \E i, j \in DOMAIN players :
          /\ players[i].isEliminated /\ players[i].lifePoints = 0
          /\ ~players[j].isEliminated /\ players[j].lifePoints > 0

\* C9: no call other than reset() moves gameState backwards along
\* SETUP -> PLAYING -> FINISHED.
C9_StateMonotone ==
    [][op' # "reset" => Rank(gameState') >= Rank(gameState)]_vars

\* C10: while PLAYING the roster holds at least getMinPlayers() players.
C10_RosterWhilePlaying ==
    gameState = "PLAYING" => Len(players) >= getMinPlayers

----------------------------------------------------------------------------
(* C11 .. C20 *)

\* the names addPlayer accepts on an empty roster
ProperNames == {name \in Names : name # << >> /\ Trim(name) # << >>}

\* the engine as one value
C11_Engine ==
    [players |-> players, currentRound |-> currentRound,
     maxRounds |-> maxRounds, hasPlayedThisRound |-> hasPlayedThisRound,
     gameState |-> gameState, targetNumber |-> targetNumber,
     roundWinners |-> roundWinners]

\* the engine as the two constructors leave it (index.js:35-41,
\* front_end.js:467-473)
C11_Constructed ==
    [players |-> << >>, currentRound |-> 0, maxRounds |-> 999,
     hasPlayedThisRound |-> FALSE, gameState |-> "SETUP",
     targetNumber |-> NullTarget, roundWinners |-> << >>]

\* engine e after a successful addPlayer(name)
C11_Added(e, name) ==
    [e EXCEPT !.players = Append(@, createPlayer(name, nextId))]

\* what C11 compares: every field of the engine, and of each player
\* everything but the identity
C11_View(e) ==
    [gameState |-> e.gameState, currentRound |-> e.currentRound,
     maxRounds |-> e.maxRounds, hasPlayedThisRound |-> e.hasPlayedThisRound,
     targetNumber |-> e.targetNumber, roundWinners |-> e.roundWinners,
     roster |-> [i \in DOMAIN e.players |->
                    [name          |-> e.players[i].name,
                     lifePoints    |-> e.players[i].lifePoints,
                     currentChoice |-> e.players[i].currentChoice,
                     isEliminated  |-> e.players[i].isEliminated,
                     roundHistory  |-> e.players[i].roundHistory]]]

\* C11: after reset() on a FINISHED engine, addPlayer(n) gives the state a
\* newly constructed engine has after addPlayer(n), for every proper name n:
\* gameState, currentRound, maxRounds, hasPlayedThisRound, targetNumber,
\* roundWinners and the roster are the same.
C11_ResetLikeNew ==
    [][(gameState = "FINISHED" /\ op' = "reset") =>
          \A name \in ProperNames :
             C11_View(C11_Added(C11_Engine', name)) =
                C11_View(C11_Added(C11_Constructed, name))]_vars

\* a name addPlayer has to refuse: empty, blanks only, or borne by a player
C12_BadName(name) ==
    \/ name = << >>
    \/ \A k \in DOMAIN name : name[k] = " "
    \/ \E i \in DOMAIN players : players[i].name = name

\* C12: addPlayer(name) with an empty or blank name, or with the name of a
\* player of the roster, ends in an error and changes nothing of the engine
\* (an addPlayer step that does anything else is a call with no such name);
\* the names of the roster, empty at first, are pairwise distinct after
\* every step, hence in every state.
C12_RejectedNames ==
    [][/\ op' = "addPlayer" =>
            \/ ret' = "error" /\ UNCHANGED engine
            \/ \A name \in Names : C12_BadName(name) => ~AddPlayer(name)
       /\ \A i, j \in DOMAIN players' :
            i # j => players'[i].name # players'[j].name]_vars

\* addPlayer refused on the roster A, B although a player could still have
\* been created
C12_Witness ==
    /\ op = "addPlayer" /\ ret = "error"
    /\ Len(players) = 2
    /\ nextId \in PlayerIds
    /\ {players[i].name : i \in DOMAIN players} = {<<"A">>, <<"B">>}

\* C13: startGame() with fewer than two players ends in an error and changes
\* nothing of the engine; with two or more it sets gameState to PLAYING,
\* currentRound to 1 and hasPlayedThisRound to false.
C13_StartGame ==
    [][op' = "startGame" =>
          IF Len(players) < 2
          THEN ret' = "error" /\ UNCHANGED engine
          ELSE /\ ret' = "ok"
               /\ gameState' = "PLAYING"
               /\ currentRound' = 1
               /\ hasPlayedThisRound' = FALSE]_vars

\* startGame refused in SETUP for a roster of one
C13_Witness ==
    /\ op = "startGame" /\ ret = "error"
    /\ Len(players) = 1
    /\ gameState = "SETUP"
    /\ currentRound = 0

\* C14: playRound() called in SETUP or FINISHED ends in an error and changes
\* nothing of the engine: players, targetNumber, roundWinners, currentRound,
\* hasPlayedThisRound, gameState.
C14_PlayRoundRefused ==
    [][(op' = "playRound" /\ gameState \in {"SETUP", "FINISHED"}) =>
          (ret' = "error" /\ UNCHANGED engine)]_vars

\* playRound refused on a game that was played to its end
C14_Witness ==
    /\ op = "playRound" /\ ret = "error"
    /\ gameState = "FINISHED"
    /\ hasPlayedThisRound
    /\ roundWinners # << >>
    /\ \E i \in DOMAIN players : players[i].roundHistory # << >>

C16_NoAdvance ==
    [][(op' = "advanceRound"
          /\ (~hasPlayedThisRound \/ gameState = "FINISHED")) =>
          /\ ~canAdvanceRound
          /\ ret' = "false"
          /\ currentRound' = currentRound
          /\ targetNumber' = targetNumber
          /\ roundWinners' = roundWinners
          /\ DOMAIN players' = DOMAIN players
          /\ \A i \in DOMAIN players :
                players'[i].currentChoice = players[i].currentChoice]_vars

\* advanceRound refused on a finished game whose last round is on record
C16_Witness ==
    /\ op = "advanceRound" /\ ret = "false"
    /\ gameState = "FINISHED"
    /\ hasPlayedThisRound
    /\ targetNumber # NullTarget
    /\ roundWinners # << >>
    /\ \E i \in DOMAIN players : players[i].currentChoice # Null

\* C17: getRoundWinner() returns a player exactly when hasPlayedThisRound is
\* true and roundWinners holds exactly one player, and then that player; it
\* returns nothing when no round has been played, after a two-player draw
\* (roundWinners empty) and when several players are co-winners.
C17_GetRoundWinner ==
    /\ (getRoundWinner # Null) <=> (hasPlayedThisRound /\ Len(roundWinners) = 1)
    /\ getRoundWinner # Null => getRoundWinner = roundWinners[1]
    /\ (~hasPlayedThisRound \/ roundWinners = << >> \/ Len(roundWinners) > 1)
          => getRoundWinner = Null

\* a played round of three with a single winner, who is returned
C17_Witness ==
    /\ hasPlayedThisRound
    /\ Len(players) = 3
    /\ Len(roundWinners) = 1
    /\ \E i \in DOMAIN players :
          /\ players[i].id = getRoundWinner
          /\ players[i].roundHistory # << >>
          /\ players[i].roundHistory[Len(players[i].roundHistory)].won

\* the sum of the numbers drawn in this step by the players active before it
C18_Sum ==
    SumSeq([i \in DOMAIN players |->
               IF i \in ActiveIdx(players) THEN players'[i].currentChoice
               ELSE 0])

\* C18: in every resolved round with n active players whose choices sum to
\* sum, targetNumber is a number t with 5 * n * t = 4 * sum, that is 0.8
\* times their mean, exactly; the choices of eliminated players do not
\* count.  With no active player there is no mean, and targetNumber is the
\* 0/0 of that computation.
C18_Target ==
    [][RoundResolved =>
          LET n == Cardinality(ActiveIdx(players))
              t == targetNumber'
          IN  /\ Len(t) = 2
              /\ n > 0 => (t[2] > 0 /\ 5 * n * t[1] = 4 * C18_Sum * t[2])
              /\ n = 0 => t = <<0, 0>>]_vars

\* a round of two active players beside an eliminated one, who drew a
\* number as well: the target is 0.8 times the mean of the two
C18_Witness ==
    /\ op = "playRound" /\ ret \in {"ok", "running"}
    /\ Len(players) = 3
    /\ \E i, j, k \in DOMAIN players :
          LET hi == players[i].roundHistory
              hj == players[j].roundHistory
              hk == players[k].roundHistory
          IN  /\ i # j /\ j # k /\ i # k
              /\ players[k].isEliminated
              /\ hk # << >> /\ Len(hk) < Len(hi) /\ Len(hj) = Len(hi)
              /\ players[k].currentChoice > 0
              /\ targetNumber =
                    <<4 * (players[i].currentChoice + players[j].currentChoice),
                      10>>
              /\ hi[Len(hi)].targetNumber = targetNumber

C19_Names(entries) == [i \in DOMAIN entries |-> entries[i].name]

\* C19: in SETUP every addPlayer with a proper name that no player bears
\* adds one entry with that name at the end of getGameState().players and
\* keeps the entries before it, so that k such calls on an empty roster give
\* k entries in the order of the calls; removePlayer with an id no player
\* has returns false and leaves the roster as it is.
C19_RosterOrder ==
    [][/\ (op' = "addPlayer" /\ gameState = "SETUP") =>
             \A name \in Names :
                (AddPlayer(name) /\ ~C12_BadName(name)) =>
                   /\ ret' = "ok"
                   /\ Len(getGameState'.players) = Len(getGameState.players) + 1
                   /\ C19_Names(getGameState'.players) =
                         Append(C19_Names(getGameState.players), name)
       /\ op' = "removePlayer" =>
             \A playerId \in PlayerIds :
                (RemovePlayer(playerId)
                   /\ \A i \in DOMAIN players : players[i].id # playerId) =>
                   (ret' = "false" /\ players' = players)]_vars

\* three players added in SETUP in the order B, A, C
C19_Witness ==
    /\ gameState = "SETUP"
    /\ op = "addPlayer" /\ ret = "ok"
    /\ Len(getGameState.players) = 3
    /\ C19_Names(getGameState.players) = <<<<"B">>, <<"A">>, <<"C">>>>

\* the life points of the active players, added up
C20_SumLife(ps) ==
    SumSeq([i \in DOMAIN ps |->
               IF IsActive(ps[i]) THEN ps[i].lifePoints ELSE 0])

\* C20: every resolved round lowers the sum of the active players' life
\* points by at least one.
C20_RoundsCostLife ==
    [][RoundResolved =>
          C20_SumLife(players') <= C20_SumLife(players) - 1]_vars

----------------------------------------------------------------------------
(* C21 .. C23 *)

\* C21: a resolved round leaves the currentChoice of every player who was
\* eliminated before it as it was; only the active players get a choice.
C21_EliminatedKeepChoice ==
    [][RoundResolved =>
          \A i \in DOMAIN players :
             players[i].isEliminated =>
                players'[i].currentChoice = players[i].currentChoice]_vars

\* the state right after a startGame() that succeeded or a reset(): no round
\* has been resolved since
C22_JustStarted == (op = "startGame" /\ ret = "ok") \/ op = "reset"

\* C22: when no round has been resolved since the last startGame() or
\* reset(), targetNumber is null and roundWinners is empty.
C22_NothingResolved ==
    C22_JustStarted => (targetNumber = NullTarget /\ roundWinners = << >>)

\* the rounds of history h that were lost
C23_Lost(h) == {k \in DOMAIN h : ~h[k].won}

\* C23: every player of the roster has between 0 and the starting number of
\* life points, as many as the starting number less the lost rounds of the
\* player's roundHistory, and the last entry's lifePointsAfter is the
\* player's lifePoints.
C23_LifeAndHistory ==
    \A i \in DOMAIN players :
       LET p == players[i]
           h == p.roundHistory
       IN  /\ p.lifePoints \in 0..StartingLife
           /\ p.lifePoints = StartingLife - Cardinality(C23_Lost(h))
           /\ h # << >> => h[Len(h)].lifePointsAfter = p.lifePoints

\* after a two-player draw that followed a round of three: a player with a
\* won and a lost round on record, and one who lost the first round
C23_Witness ==
    /\ PlayRoundReturned
    /\ roundWinners = << >>
    /\ \E i, k \in DOMAIN players :
          LET hi == players[i].roundHistory
              hk == players[k].roundHistory
          IN  /\ Len(hi) = 2 /\ hi[1].won /\ ~hi[2].won
              /\ hi[1].lifePointsAfter = StartingLife
              /\ hi[2].lifePointsAfter = StartingLife - 1
              /\ players[i].lifePoints = StartingLife - 1
              /\ Len(hk) = 1 /\ ~hk[1].won
              /\ players[k].lifePoints = StartingLife - 1

====
